---- MODULE Spec2Model ----
(***************************************************************************)
(* Redirect / auth-interception policy of url_opener_v2.                   *)
(*                                                                         *)
(* Main process: electron.js (webRequest.onBeforeRedirect,                 *)
(* setWindowOpenHandler, will-navigate, ipcMain 'log-url-opened').         *)
(* Renderer: src/components/EmbeddedBrowser.js (React component holding    *)
(* authInProgress and the webview event listeners).                        *)
(*                                                                         *)
(* A URL is a sequence of tokens: the scheme and host, the delimiters      *)
(* "/", "?", "&", "=", "#", and the words between them.  No keyword the    *)
(* code searches for contains a delimiter, so String.includes is decided   *)
(* token by token (Words gives the keywords that occur inside a token).    *)
(***************************************************************************)
EXTENDS Integers, Sequences, FiniteSets, TLC

\* ------------------------------------------------------------------ bounds
MaxInbox == 2
MaxHistory == 1
MaxClock == 1
MaxLog == 2
MaxTries == 2
MaxPolls == 2

\* --------------------------------------------------------------- URL text
HOST == "https://example.com"

Pair(p) == IF p[2] = "" THEN <<p[1], "=">> ELSE <<p[1], "=", p[2]>>

RECURSIVE JoinPairs(_)
JoinPairs(ps) ==
  IF ps = <<>> THEN <<>>
  ELSE IF Len(ps) = 1 THEN Pair(ps[1])
  ELSE Pair(ps[1]) \o <<"&">> \o JoinPairs(Tail(ps))

Part(d, ps) == IF ps = <<>> THEN <<>> ELSE <<d>> \o JoinPairs(ps)

RECURSIVE PathText(_)
PathText(segs) ==
  IF segs = <<>> THEN <<>> ELSE <<"/", Head(segs)>> \o PathText(Tail(segs))

\* The text of https://example.com/<seg>/<seg>?<query>#<frag>.
Build(segs, query, frag) ==
  <<HOST>> \o PathText(segs) \o Part("?", query) \o Part("#", frag)

\* https://example.com/page
U_page == Build(<<"page">>, <<>>, <<>>)
\* https://example.com/login/callback
U_loginCallback == Build(<<"login", "callback">>, <<>>, <<>>)
\* https://example.com/login?token=xyz
U_loginToken == Build(<<"login">>, << <<"token", "xyz">> >>, <<>>)
\* https://example.com/auth/callback?code=
U_callbackEmpty == Build(<<"auth", "callback">>, << <<"code", "">> >>, <<>>)
\* https://example.com/done?access_token=zzz
U_doneToken == Build(<<"done">>, << <<"access_token", "zzz">> >>, <<>>)

\* login?token=xyz : no scheme, new URL() throws on it
U_noScheme == <<"login">> \o Part("?", << <<"token", "xyz">> >>)
\* https://example.com/auth/callback#access_token=zzz
U_fragToken == Build(<<"auth", "callback">>, <<>>, << <<"access_token", "zzz">> >>)

\* The URLs of the navigation, redirect and window.open events explored.
EventUrls ==
  { U_page, U_loginCallback, U_loginToken, U_callbackEmpty, U_doneToken }

\* The URLs webview.getURL() returns when a load stops.
FinalUrls == { U_page, U_doneToken }

\* The same, for the runs about URLs that do not parse or that carry the
\* token in the fragment.
ParseEventUrls == { U_page, U_noScheme, U_fragToken }
ParseFinalUrls == { U_page, U_noScheme, U_fragToken, U_callbackEmpty }

\* The same, for the runs with every handler of the application.
AppEventUrls == { U_page, U_loginToken }
AppFinalUrls == { U_page, U_doneToken, U_fragToken }

\* The same, for the runs that fill the history with MaxLog entries.
LogEventUrls == { U_loginToken }
LogFinalUrls == { U_page }

\* The keywords (of any call site) that occur inside one token.
Words(t) ==
  CASE t = "oauth" -> {"oauth", "auth"}
    [] t = "access_token" -> {"access_token", "token"}
    [] t \in {"auth", "signin", "login", "sso", "callback", "token", "code"} -> {t}
    [] OTHER -> {}

\* String.prototype.includes(kw)
Includes(u, kw) == \E i \in 1..Len(u) : kw \in Words(u[i])

IndexOf(u, d) ==
  IF \E i \in 1..Len(u) : u[i] = d
  THEN CHOOSE i \in 1..Len(u) : u[i] = d /\ \A j \in 1..(i - 1) : u[j] # d
  ELSE 0

\* The text from the first "#" on, the "#" dropped (empty when there is none).
HashText(u) ==
  LET h == IndexOf(u, "#") IN IF h = 0 THEN <<>> ELSE SubSeq(u, h + 1, Len(u))

\* The text between the first "?" and the first "#", both dropped.
SearchText(u) ==
  LET h == IndexOf(u, "#")
      b == IF h = 0 THEN u ELSE SubSeq(u, 1, h - 1)
      q == IndexOf(b, "?")
  IN IF q = 0 THEN <<>> ELSE SubSeq(b, q + 1, Len(b))

\* name=value&name=value... as a sequence of <<name, value>>.
RECURSIVE SplitParams(_)
SplitParams(s) ==
  IF s = <<>> THEN <<>>
  ELSE LET a == IndexOf(s, "&")
           part == IF a = 0 THEN s ELSE SubSeq(s, 1, a - 1)
           rest == IF a = 0 THEN <<>> ELSE SubSeq(s, a + 1, Len(s))
           e == IndexOf(part, "=")
           name == IF e = 0 THEN part ELSE SubSeq(part, 1, e - 1)
           value == IF e = 0 THEN <<>> ELSE SubSeq(part, e + 1, Len(part))
           this == IF part = <<>> THEN <<>>
                   ELSE << << IF name = <<>> THEN "" ELSE name[1],
                              IF value = <<>> THEN "" ELSE value[1] >> >>
       IN this \o SplitParams(rest)

ValuesOf(ps, name) == SelectSeq(ps, LAMBDA p : p[1] = name)

\* url.parse(u, true).query[name] as a condition: a name absent is undefined,
\* a name given once is its string (the empty string is falsy), a name given
\* several times is an array (truthy).
LegacyQueryTruthy(u, name) ==
  LET vs == ValuesOf(SplitParams(SearchText(u)), name)
  IN \/ Len(vs) > 1
     \/ Len(vs) = 1 /\ vs[1][2] # ""

\* new URL(u) throws a TypeError on a string with no scheme.
UrlParses(u) == Len(u) > 0 /\ u[1] = HOST

\* new URLSearchParams(text).get(name) as a condition: the first value, null
\* when the name is absent; null and the empty string are falsy.
SearchParamsTruthy(text, name) ==
  LET vs == ValuesOf(SplitParams(text), name)
  IN Len(vs) > 0 /\ vs[1][2] # ""


\* ------------------------------------------------------------ classifiers
\* One operator per call site, each the condition as written there.

\* IsAuthRedirect with the parameter test lost.
IsAuthRedirect_KeywordOnly(u) ==
  \/ Includes(u, "auth")
  \/ Includes(u, "oauth")
  \/ Includes(u, "signin")
  \/ Includes(u, "login")
  \/ Includes(u, "sso")
  \/ Includes(u, "callback")

\* electron.js, webRequest.onBeforeRedirect
IsAuthRedirect(u) ==
  /\ \/ Includes(u, "auth")
     \/ Includes(u, "oauth")
     \/ Includes(u, "signin")
     \/ Includes(u, "login")
     \/ Includes(u, "sso")
     \/ Includes(u, "callback")
  /\ \/ LegacyQueryTruthy(u, "token")
     \/ LegacyQueryTruthy(u, "code")
     \/ LegacyQueryTruthy(u, "access_token")

\* electron.js, contents.on('will-navigate'): the verdict is only logged
IsAuthMainWillNavigate(u) ==
  /\ \/ Includes(u, "auth")
     \/ Includes(u, "oauth")
     \/ Includes(u, "signin")
     \/ Includes(u, "login")
     \/ Includes(u, "sso")
     \/ Includes(u, "callback")
  /\ \/ LegacyQueryTruthy(u, "token")
     \/ LegacyQueryTruthy(u, "code")
     \/ LegacyQueryTruthy(u, "access_token")

\* electron.js, contents.setWindowOpenHandler: keyword OR parameter
IsAuthWindowOpen(u) ==
  \/ \/ Includes(u, "auth")
     \/ Includes(u, "login")
     \/ Includes(u, "sso")
     \/ Includes(u, "oauth")
     \/ Includes(u, "signin")
     \/ Includes(u, "callback")
  \/ \/ LegacyQueryTruthy(u, "token")
     \/ LegacyQueryTruthy(u, "code")
     \/ LegacyQueryTruthy(u, "access_token")

\* WindowOpenAction letting the window open for a URL it forwards.
WindowOpenAction_AllowAuth(u) == IF IsAuthWindowOpen(u) THEN "allow" ELSE "deny"

\* The handler's return value.
WindowOpenAction(u) == "deny"

\* EmbeddedBrowser.js, handleWillNavigate
IsAuthWillNavigate(u) ==
  \/ Includes(u, "oauth")
  \/ Includes(u, "auth")
  \/ Includes(u, "login")
  \/ Includes(u, "sso")

\* EmbeddedBrowser.js, handleNewWindow
IsAuthNewWindow(u) ==
  \/ Includes(u, "auth")
  \/ Includes(u, "login")
  \/ Includes(u, "sso")
  \/ Includes(u, "oauth")
  \/ Includes(u, "callback")

\* EmbeddedBrowser.js, handleDidStopLoading: the outer test on the final URL
StopKeyword(u) ==
  \/ Includes(u, "callback")
  \/ Includes(u, "token")
  \/ Includes(u, "auth")
  \/ Includes(u, "code")
  \/ Includes(u, "access_token")

\* StopTokenFound reading the parameters of a URL that does not parse.
StopTokenFound_NoThrow(u) ==
  \/ SearchParamsTruthy(SearchText(u), "code")
  \/ SearchParamsTruthy(SearchText(u), "token")
  \/ SearchParamsTruthy(SearchText(u), "access_token")
  \/ SearchParamsTruthy(HashText(u), "access_token")

\* EmbeddedBrowser.js, handleDidStopLoading: the try block.  A URL that does
\* not parse throws inside the try and is caught: no token is found.
StopTokenFound(u) ==
  /\ UrlParses(u)
  /\ \/ SearchParamsTruthy(SearchText(u), "code")
     \/ SearchParamsTruthy(SearchText(u), "token")
     \/ SearchParamsTruthy(SearchText(u), "access_token")
     \/ SearchParamsTruthy(HashText(u), "access_token")

\* StopAuthNext with every completed load ending the auth flow.
StopAuthNext_AnyStop(captured, current, u) == FALSE

\* The value handleDidStopLoading leaves in authInProgress, given the value
\* its closure captured and the current one.
StopAuthNext(captured, current, u) ==
  IF captured /\ StopKeyword(u) /\ StopTokenFound(u) THEN FALSE ELSE current

\* ------------------------------------------------------------ load errors
ERR_ABORTED == -3
ErrorCodes == {-3, -105}
ErrorDescription(code) ==
  IF code = -3 THEN "ERR_ABORTED" ELSE "ERR_NAME_NOT_RESOLVED"
ErrorTitle(code) == "Error loading page: " \o ErrorDescription(code)

\* handleLoadFailed: whether the error is written to the title, given the
\* authInProgress its closure captured.
SurfacesError(captured, code) == ~captured /\ code # ERR_ABORTED

\* The batchId prop of the component.
batchId == 1

\* LogEntry with the timestamp taken once, not at each load.
LogEntry_StaleTime(u, t) == [url |-> u, timestamp |-> 0, batchId |-> batchId]

\* The record handleDidStopLoading sends on 'log-url-opened'.
LogEntry(u, t) == [url |-> u, timestamp |-> t, batchId |-> batchId]


\* ------------------------------------------------------------------ state
VARIABLES
  mainWindow,      \* electron.js mainWindow: "open" or "closed" (null)
  isWebviewReady,  \* React state of EmbeddedBrowser
  authInProgress,  \* React state of EmbeddedBrowser: FALSE Idle, TRUE AuthPending
  title,           \* React state of EmbeddedBrowser
  lsn,             \* what the registered listeners' closures captured
  inbox,           \* main -> renderer deliveries, in order
  logQueue,        \* 'log-url-opened' messages in flight to the main process
  urlHistory,      \* electron.js urlHistory
  newWindows,      \* windows opened for a window.open request
  now,             \* the clock new Date() reads
  dev,             \* start-up of the main process: platform, readiness polls
  last             \* the event handled by the last step and what it emitted

vars == << mainWindow, isWebviewReady, authInProgress, title, lsn,
           inbox, logQueue, urlHistory, newWindows, now, dev, last >>

NoUrl == <<>>

\* registered: the webview listeners of the two effects guarded by
\* isWebviewReady are attached; auth: the authInProgress they captured;
\* ready: the isWebviewReady handleAuthRedirect captured.
NoListeners == [registered |-> FALSE, auth |-> FALSE, ready |-> FALSE]

Ev(ev, u) ==
  [ ev |-> ev, url |-> u, handled |-> TRUE, pre |-> authInProgress,
    code |-> 0, afterFailure |-> FALSE, verdict |-> FALSE, mainVerdict |-> FALSE,
    fwd |-> FALSE, dialog |-> FALSE, action |-> "none", prevented |-> FALSE,
    loaded |-> FALSE, surfaced |-> FALSE, notice |-> "", ret |-> "none",
    reply |-> [ok |-> TRUE, entries |-> <<>>], threw |-> FALSE ]

\* One readiness poll of createWindow: st is "requesting" (http.get in
\* flight), "sleeping" (setTimeout pending) or "done"; tries counts its timers.
Poll(st, tries) == [st |-> st, tries |-> tries]

\* The start URL has been loaded once and no poll is running.
Started ==
  [darwin |-> FALSE, quit |-> FALSE, allClosed |-> FALSE, polls |-> <<>>, loads |-> 1]

\* The component has mounted: its effects have run once.  handleAuthRedirect
\* is registered with the isWebviewReady of the first render (false); the
\* webview exposes getWebContentsId, so setIsWebviewReady(true) has been
\* called; the two listener effects returned early and wait for the re-render.
Init ==
  /\ mainWindow = "open"
  /\ isWebviewReady = TRUE
  /\ authInProgress = FALSE
  /\ title = ""
  /\ lsn = NoListeners
  /\ inbox = <<>>
  /\ logQueue = <<>>
  /\ urlHistory = <<>>
  /\ newWindows = 0
  /\ now = 0
  /\ dev = Started
  /\ last = Ev("init", NoUrl)

MainWindowAlive == mainWindow = "open"

\* ----------------------------------------------------------- React effects
\* What the effects register when they run for the current render.
Registered ==
  [registered |-> isWebviewReady, auth |-> authInProgress, ready |-> isWebviewReady]

\* A re-render's effects run (deps isWebviewReady, authInProgress): the old
\* listeners are removed and new ones capture the current state.
FlushEffects ==
  /\ MainWindowAlive
  /\ lsn # Registered
  /\ lsn' = Registered
  /\ last' = Ev("effects", NoUrl)
  /\ UNCHANGED << mainWindow, isWebviewReady, authInProgress, title,
                  inbox, logQueue, urlHistory, newWindows, now, dev >>

\* ------------------------------------------------------------ main process
AuthRedirectMsg(u) == [ch |-> "handle-auth-redirect", url |-> u]
NewWindowEvent(u) == [ch |-> "new-window", url |-> u]

\* What mainWindow.webContents.send('handle-auth-redirect', u) adds, under
\* its guard on mainWindow.
SendAuthRedirect(u) == IF MainWindowAlive THEN << AuthRedirectMsg(u) >> ELSE <<>>

\* Redirect with the classification also starting the auth flow.
Redirect_SetsPending(u) ==
  /\ MainWindowAlive
  /\ Len(inbox) < MaxInbox
  /\ LET auth == IsAuthRedirect(u)
         out == IF auth THEN SendAuthRedirect(u) ELSE <<>>
     IN /\ inbox' = inbox \o out
        /\ authInProgress' = (authInProgress \/ auth)
        /\ last' = [Ev("redirect", u) EXCEPT !.verdict = auth, !.fwd = out # <<>>]
  /\ UNCHANGED << mainWindow, isWebviewReady, title,
                  lsn, logQueue, urlHistory, newWindows, now, dev >>

\* session.webRequest.onBeforeRedirect
Redirect(u) ==
  /\ MainWindowAlive
  /\ Len(inbox) < MaxInbox
  /\ LET auth == IsAuthRedirect(u)
         out == IF auth THEN SendAuthRedirect(u) ELSE <<>>
     IN /\ inbox' = inbox \o out
        /\ last' = [Ev("redirect", u) EXCEPT !.verdict = auth, !.fwd = out # <<>>]
  /\ UNCHANGED << mainWindow, isWebviewReady, authInProgress, title,
                  lsn, logQueue, urlHistory, newWindows, now, dev >>

\* window.open in the embedded page: contents.setWindowOpenHandler runs in the
\* main process, then the webview's 'new-window' event goes to the renderer.
NewWindowRequest(u) ==
  /\ MainWindowAlive
  /\ Len(inbox) + 2 <= MaxInbox
  /\ LET auth == IsAuthWindowOpen(u)
         out == IF auth THEN SendAuthRedirect(u) ELSE <<>>
         act == WindowOpenAction(u)
     IN /\ inbox' = inbox \o out \o << NewWindowEvent(u) >>
        /\ newWindows' = IF act = "deny" THEN newWindows ELSE newWindows + 1
        /\ last' = [Ev("window-open", u) EXCEPT !.verdict = auth, !.fwd = out # <<>>,
                                                !.dialog = ~auth, !.action = act,
                                                !.notice = IF auth THEN ""
                                                           ELSE "External Browser Disabled"]
  /\ UNCHANGED << mainWindow, isWebviewReady, authInProgress, title,
                  lsn, logQueue, urlHistory, now, dev >>

\* LogUrlOpened dropping an entry whose URL is already in the history.
LogUrlOpened_Dedup ==
  /\ logQueue # <<>>
  /\ urlHistory' = IF \E i \in 1..Len(urlHistory) : urlHistory[i].url = Head(logQueue).url
                   THEN urlHistory
                   ELSE Append(urlHistory, Head(logQueue))
  /\ logQueue' = Tail(logQueue)
  /\ last' = [Ev("log-url-opened", Head(logQueue).url) EXCEPT !.pre = authInProgress]
  /\ UNCHANGED << mainWindow, isWebviewReady, authInProgress, title,
                  lsn, inbox, newWindows, now, dev >>

\* ipcMain.on('log-url-opened')
LogUrlOpened ==
  /\ logQueue # <<>>
  /\ urlHistory' = Append(urlHistory, Head(logQueue))
  /\ logQueue' = Tail(logQueue)
  /\ last' = [Ev("log-url-opened", Head(logQueue).url) EXCEPT !.pre = authInProgress]
  /\ UNCHANGED << mainWindow, isWebviewReady, authInProgress, title,
                  lsn, inbox, newWindows, now, dev >>

\* mainWindow.on('closed'): the window, its renderer and the embedded view
\* are gone; nothing is delivered to them any more.
CloseWindow ==
  /\ MainWindowAlive
  /\ mainWindow' = "closed"
  /\ isWebviewReady' = FALSE
  /\ authInProgress' = FALSE
  /\ title' = ""
  /\ lsn' = NoListeners
  /\ inbox' = <<>>
  /\ last' = [Ev("closed", NoUrl) EXCEPT !.pre = authInProgress]
  /\ UNCHANGED << logQueue, urlHistory, newWindows, now, dev >>


\* ---------------------------------------------------------------- renderer
\* HandleAuthRedirect without setAuthInProgress(true).
HandleAuthRedirect_KeepsState ==
  /\ MainWindowAlive
  /\ inbox # <<>>
  /\ Head(inbox).ch = "handle-auth-redirect"
  /\ inbox' = Tail(inbox)
  /\ last' = [Ev("handle-auth-redirect", Head(inbox).url) EXCEPT !.loaded = lsn.ready]
  /\ UNCHANGED << mainWindow, isWebviewReady, authInProgress, title, lsn, logQueue,
                  urlHistory, newWindows, now, dev >>

\* ipcRenderer.on('handle-auth-redirect', handleAuthRedirect)
HandleAuthRedirect ==
  /\ MainWindowAlive
  /\ inbox # <<>>
  /\ Head(inbox).ch = "handle-auth-redirect"
  /\ inbox' = Tail(inbox)
  /\ authInProgress' = TRUE
  /\ last' = [Ev("handle-auth-redirect", Head(inbox).url) EXCEPT !.loaded = lsn.ready]
  /\ UNCHANGED << mainWindow, isWebviewReady, title, lsn, logQueue,
                  urlHistory, newWindows, now, dev >>

\* webview 'new-window' -> handleNewWindow
HandleNewWindow ==
  /\ MainWindowAlive
  /\ inbox # <<>>
  /\ Head(inbox).ch = "new-window"
  /\ inbox' = Tail(inbox)
  /\ LET u == Head(inbox).url
         auth == IsAuthNewWindow(u)
     IN IF lsn.registered
        THEN /\ authInProgress' = IF auth THEN TRUE ELSE authInProgress
             /\ last' = [Ev("new-window", u) EXCEPT !.verdict = auth, !.prevented = TRUE,
                                                   !.loaded = auth]
        ELSE /\ authInProgress' = authInProgress
             /\ last' = [Ev("new-window", u) EXCEPT !.handled = FALSE]
  /\ UNCHANGED << mainWindow, isWebviewReady, title, lsn, logQueue,
                  urlHistory, newWindows, now, dev >>

\* 'will-navigate': contents.on('will-navigate') in the main process logs its
\* verdict; handleWillNavigate in the renderer, when registered.
WillNavigate(u) ==
  /\ MainWindowAlive
  /\ LET auth == IsAuthWillNavigate(u)
     IN /\ authInProgress' = IF lsn.registered /\ auth THEN TRUE ELSE authInProgress
        /\ last' = [Ev("will-navigate", u) EXCEPT !.handled = lsn.registered,
                                                  !.verdict = lsn.registered /\ auth,
                                                  !.mainVerdict = IsAuthMainWillNavigate(u)]
  /\ UNCHANGED << mainWindow, isWebviewReady, title, lsn, inbox, logQueue,
                  urlHistory, newWindows, now, dev >>

\* 'did-fail-load' -> handleLoadFailed
DidFailLoad(code) ==
  /\ MainWindowAlive
  /\ LET show == lsn.registered /\ SurfacesError(lsn.auth, code)
     IN /\ title' = IF show THEN ErrorTitle(code) ELSE title
        /\ last' = [Ev("did-fail-load", NoUrl) EXCEPT !.handled = lsn.registered,
                                                      !.code = code, !.surfaced = show]
  /\ UNCHANGED << mainWindow, isWebviewReady, authInProgress, lsn, inbox,
                  logQueue, urlHistory, newWindows, now, dev >>

\* The runs stop logging when max entries exist (sent or appended); the
\* program has no such limit.
HistoryRoom(max) == lsn.registered => Len(logQueue) + Len(urlHistory) < max

\* The load that stops now has just reported a failure.
AfterFailure == last.ev = "did-fail-load"

\* 'did-stop-loading' -> handleDidStopLoading, u what webview.getURL() returns
\* and t what new Date() reads.
DidStopLoading(u) ==
  /\ MainWindowAlive
  /\ IF lsn.registered
     THEN /\ \E t \in now..(IF now < MaxClock THEN now + 1 ELSE now) :
               /\ now' = t
               /\ logQueue' = Append(logQueue, LogEntry(u, t))
          /\ authInProgress' = StopAuthNext(lsn.auth, authInProgress, u)
          /\ last' = [Ev("did-stop-loading", u) EXCEPT !.afterFailure = AfterFailure]
     ELSE /\ last' = [Ev("did-stop-loading", u) EXCEPT !.handled = FALSE,
                                                     !.afterFailure = AfterFailure]
          /\ UNCHANGED << now, logQueue, authInProgress >>
  /\ UNCHANGED << mainWindow, isWebviewReady, title, lsn, inbox,
                  urlHistory, newWindows, dev >>

\* 'did-start-loading' -> handleDidStartLoading: only the loading indicator
\* changes.
DidStartLoading ==
  /\ MainWindowAlive
  /\ last' = [Ev("did-start-loading", NoUrl) EXCEPT !.handled = lsn.registered]
  /\ UNCHANGED << mainWindow, isWebviewReady, authInProgress, title, lsn, inbox,
                  logQueue, urlHistory, newWindows, now, dev >>

\* webview.getTitle() of a loaded page.
PageTitle(u) == "Page"

\* 'did-finish-load' -> handleDidFinishLoad: the title of the page replaces
\* the one shown.
DidFinishLoad(u) ==
  /\ MainWindowAlive
  /\ title' = IF lsn.registered THEN PageTitle(u) ELSE title
  /\ last' = [Ev("did-finish-load", u) EXCEPT !.handled = lsn.registered]
  /\ UNCHANGED << mainWindow, isWebviewReady, authInProgress, lsn, inbox,
                  logQueue, urlHistory, newWindows, now, dev >>

\* ------------------------------------------------- history view, main IPC
\* The channels electron.js answers to ipcRenderer.invoke: it registers
\* listeners with ipcMain.on only and no ipcMain.handle.
InvokeHandlers == {}

\* What ipcRenderer.invoke(ch) resolves to; with no handler registered the
\* promise is rejected.
InvokeReply(ch) ==
  IF ch \in InvokeHandlers
  THEN [ok |-> TRUE, entries |-> urlHistory]
  ELSE [ok |-> FALSE, entries |-> <<>>]

\* UrlHistory.js loadHistory: the rejection is caught and logged, the list
\* keeps its initial value [].
GetOpenedUrls ==
  /\ MainWindowAlive
  /\ last' = [Ev("get-opened-urls", NoUrl) EXCEPT !.reply = InvokeReply("get-opened-urls")]
  /\ UNCHANGED << mainWindow, isWebviewReady, authInProgress, title, lsn, inbox,
                  logQueue, urlHistory, newWindows, now, dev >>

\* ShellOpened for the shell.openExternal Electron ships.
ShellOpened_Original(u) == 1

\* shell.openExternal after app 'will-finish-launching' and 'ready' replaced
\* it: the number of browsers it opens.
ShellOpened(u) == 0

\* A call of shell.openExternal(u) anywhere in the main process.
ShellOpenExternal(u) ==
  /\ newWindows' = newWindows + ShellOpened(u)
  /\ last' = [Ev("shell-open-external", u) EXCEPT !.ret = "resolved"]
  /\ UNCHANGED << mainWindow, isWebviewReady, authInProgress, title, lsn, inbox,
                  logQueue, urlHistory, now, dev >>

\* ipcMain.on('open-external'), sent by UrlHistory.js handleOpenUrl
OpenExternal(u) ==
  /\ MainWindowAlive
  /\ last' = [Ev("open-external", u) EXCEPT !.dialog = TRUE,
                                            !.notice = "External Browser Disabled"]
  /\ UNCHANGED << mainWindow, isWebviewReady, authInProgress, title, lsn, inbox,
                  logQueue, urlHistory, newWindows, now, dev >>

\* ipcMain.on('open-batch')
OpenBatch ==
  /\ MainWindowAlive
  /\ last' = [Ev("open-batch", NoUrl) EXCEPT !.dialog = TRUE,
                                             !.notice = "In-App Browser Only",
                                             !.ret = "null"]
  /\ UNCHANGED << mainWindow, isWebviewReady, authInProgress, title, lsn, inbox,
                  logQueue, urlHistory, newWindows, now, dev >>

\* ------------------------------------------------- development start-up
\* createWindow in a development run (isDev): the window exists, the first
\* http.get of checkServerRunning is in flight, nothing is loaded; the
\* platform is either macOS or another one.
InitDev ==
  /\ mainWindow = "open"
  /\ isWebviewReady = FALSE
  /\ authInProgress = FALSE
  /\ title = ""
  /\ lsn = NoListeners
  /\ inbox = <<>>
  /\ logQueue = <<>>
  /\ urlHistory = <<>>
  /\ newWindows = 0
  /\ now = 0
  /\ \E d \in BOOLEAN :
       dev = [darwin |-> d, quit |-> FALSE, allClosed |-> FALSE,
              polls |-> << Poll("requesting", 0) >>, loads |-> 0]
  /\ last = Ev("create-window", NoUrl)

HttpStatuses == {200, 503}

\* The main process runs callbacks: it has not quit, and the
\* 'window-all-closed' that follows 'closed' has been handled.
DevRunning == ~dev.quit /\ (mainWindow = "closed" => dev.allClosed)

\* The response callback of http.get in checkServerRunning, for poll i.
\* mainWindow.loadURL on a mainWindow that is null throws a TypeError.
PollAnswer(i, status) ==
  /\ DevRunning
  /\ i <= Len(dev.polls)
  /\ dev.polls[i].st = "requesting"
  /\ IF status = 200
     THEN IF MainWindowAlive
          THEN /\ dev' = [dev EXCEPT !.polls[i].st = "done", !.loads = @ + 1]
               /\ last' = [Ev("poll-answer", NoUrl) EXCEPT !.code = status,
                                                           !.loaded = TRUE]
          ELSE /\ dev' = [dev EXCEPT !.polls[i].st = "done"]
               /\ last' = [Ev("poll-answer", NoUrl) EXCEPT !.code = status,
                                                           !.threw = TRUE]
     ELSE /\ dev' = [dev EXCEPT !.polls[i].st = "sleeping"]
          /\ last' = [Ev("poll-answer", NoUrl) EXCEPT !.code = status,
                                                      !.action = "retry"]
  /\ UNCHANGED << mainWindow, isWebviewReady, authInProgress, title, lsn, inbox,
                  logQueue, urlHistory, newWindows, now >>

\* The 'error' callback of http.get, for poll i.
PollError(i) ==
  /\ DevRunning
  /\ i <= Len(dev.polls)
  /\ dev.polls[i].st = "requesting"
  /\ dev' = [dev EXCEPT !.polls[i].st = "sleeping"]
  /\ last' = [Ev("poll-error", NoUrl) EXCEPT !.action = "retry"]
  /\ UNCHANGED << mainWindow, isWebviewReady, authInProgress, title, lsn, inbox,
                  logQueue, urlHistory, newWindows, now >>

\* setTimeout(checkServerRunning, 1000) fires for poll i.
PollTimer(i) ==
  /\ DevRunning
  /\ i <= Len(dev.polls)
  /\ dev.polls[i].st = "sleeping"
  /\ dev.polls[i].tries < MaxTries
  /\ dev' = [dev EXCEPT !.polls[i] = Poll("requesting", @.tries + 1)]
  /\ last' = Ev("poll-timer", NoUrl)
  /\ UNCHANGED << mainWindow, isWebviewReady, authInProgress, title, lsn, inbox,
                  logQueue, urlHistory, newWindows, now >>

\* app.on('window-all-closed'): the application quits unless on macOS.
WindowAllClosed ==
  /\ mainWindow = "closed"
  /\ ~dev.quit /\ ~dev.allClosed
  /\ dev' = [dev EXCEPT !.allClosed = TRUE, !.quit = ~dev.darwin]
  /\ last' = Ev("window-all-closed", NoUrl)
  /\ UNCHANGED << mainWindow, isWebviewReady, authInProgress, title, lsn, inbox,
                  logQueue, urlHistory, newWindows, now >>

\* app.on('activate') (macOS): createWindow again when mainWindow is null.
Activate ==
  /\ dev.darwin /\ DevRunning
  /\ mainWindow = "closed"
  /\ Len(dev.polls) < MaxPolls
  /\ mainWindow' = "open"
  /\ dev' = [dev EXCEPT !.allClosed = FALSE,
                        !.polls = Append(@, Poll("requesting", 0))]
  /\ last' = Ev("activate", NoUrl)
  /\ UNCHANGED << isWebviewReady, authInProgress, title, lsn, inbox,
                  logQueue, urlHistory, newWindows, now >>

\* ---------------------------------------------------------- specification
Next ==
  \/ FlushEffects
  \/ \E u \in EventUrls : NewWindowRequest(u)
  \/ \E u \in EventUrls : Redirect(u)
  \/ HandleAuthRedirect
  \/ HandleNewWindow
  \/ \E u \in EventUrls : WillNavigate(u)
  \/ \E c \in ErrorCodes : DidFailLoad(c)
  \/ \E u \in FinalUrls : HistoryRoom(MaxHistory) /\ DidStopLoading(u)
  \/ LogUrlOpened
  \/ CloseWindow

Spec == Init /\ [][Next]_vars

\* The same handlers on URLs that do not parse or carry the token in the
\* fragment.
NextParse ==
  \/ FlushEffects
  \/ \E u \in ParseEventUrls : NewWindowRequest(u)
  \/ \E u \in ParseEventUrls : Redirect(u)
  \/ HandleAuthRedirect
  \/ HandleNewWindow
  \/ \E u \in ParseEventUrls : WillNavigate(u)
  \/ \E c \in ErrorCodes : DidFailLoad(c)
  \/ \E u \in ParseFinalUrls : HistoryRoom(MaxHistory) /\ DidStopLoading(u)
  \/ LogUrlOpened
  \/ CloseWindow

SpecParse == Init /\ [][NextParse]_vars

\* Every handler of the application.
NextApp ==
  \/ FlushEffects
  \/ \E u \in AppEventUrls : NewWindowRequest(u)
  \/ \E u \in AppEventUrls : Redirect(u)
  \/ HandleAuthRedirect
  \/ HandleNewWindow
  \/ \E u \in AppEventUrls : WillNavigate(u)
  \/ \E c \in ErrorCodes : DidFailLoad(c)
  \/ DidStartLoading
  \/ \E u \in AppFinalUrls : DidFinishLoad(u)
  \/ \E u \in AppFinalUrls : HistoryRoom(MaxHistory) /\ DidStopLoading(u)
  \/ LogUrlOpened
  \/ GetOpenedUrls
  \/ \E u \in AppEventUrls : ShellOpenExternal(u)
  \/ \E u \in AppEventUrls : OpenExternal(u)
  \/ OpenBatch
  \/ CloseWindow

SpecApp == Init /\ [][NextApp]_vars

\* Every handler of the application, with room for MaxLog history entries.
NextLog ==
  \/ FlushEffects
  \/ \E u \in LogEventUrls : NewWindowRequest(u)
  \/ \E u \in LogEventUrls : Redirect(u)
  \/ HandleAuthRedirect
  \/ HandleNewWindow
  \/ \E u \in LogEventUrls : WillNavigate(u)
  \/ \E c \in ErrorCodes : DidFailLoad(c)
  \/ DidStartLoading
  \/ \E u \in LogFinalUrls : DidFinishLoad(u)
  \/ \E u \in LogFinalUrls : HistoryRoom(MaxLog) /\ DidStopLoading(u)
  \/ LogUrlOpened
  \/ GetOpenedUrls
  \/ \E u \in LogEventUrls : ShellOpenExternal(u)
  \/ \E u \in LogEventUrls : OpenExternal(u)
  \/ OpenBatch
  \/ CloseWindow

SpecLog == Init /\ [][NextLog]_vars


\* The main process of a development run, from createWindow until the start
\* URL is loaded.
NextDev ==
  \/ \E i \in 1..MaxPolls : \E st \in HttpStatuses : PollAnswer(i, st)
  \/ \E i \in 1..MaxPolls : PollError(i)
  \/ \E i \in 1..MaxPolls : PollTimer(i)
  \/ CloseWindow
  \/ WindowAllClosed
  \/ Activate

SpecDev == InitDev /\ [][NextDev]_vars

\* ------------------------------------------------------------------ claims
\* The classification the specification states: one of the keywords occurs in
\* the URL and one of its query parameters is named token, code or
\* access_token.
AuthKeywords == {"auth", "oauth", "signin", "login", "sso", "callback"}
TokenParams == {"token", "code", "access_token"}

HasAuthKeyword(u) == \E k \in AuthKeywords : Includes(u, k)

HasQueryParamNamed(u, n) ==
  LET ps == SplitParams(SearchText(u)) IN \E i \in 1..Len(ps) : ps[i][1] = n

HasTokenParam(u) == \E n \in TokenParams : HasQueryParamNamed(u, n)

ClaimAuthRelated(u) == HasAuthKeyword(u) /\ HasTokenParam(u)

\* C1: at every interception call site (redirect handler, window-open
\* handler, renderer will-navigate and new-window handlers) a URL is treated
\* as auth-related iff it has a keyword and a token/code/access_token query
\* parameter; a URL with 'callback' and no such parameter never is.
C1_AuthIffKeywordAndParam ==
  /\ last.ev \in {"redirect", "window-open", "will-navigate", "new-window"}
     /\ last.handled
     => (last.verdict <=> ClaimAuthRelated(last.url))
  /\ last.ev \in {"redirect", "window-open", "will-navigate", "new-window"}
     /\ last.handled /\ Includes(last.url, "callback") /\ ~HasTokenParam(last.url)
     => ~last.verdict

\* C2: in Idle, a will-navigate or new-window event handled by the view moves
\* it to AuthPending iff the URL is auth-related; otherwise it stays Idle.
C2_IdleToPendingIffAuthRelated ==
  last.ev \in {"will-navigate", "new-window"} /\ last.handled /\ ~last.pre
  => (authInProgress <=> ClaimAuthRelated(last.url))

\* C3: in AuthPending, every completed load whose final URL has a query
\* parameter named token, code or access_token moves the view to Idle.
C3_PendingStopWithTokenGoesIdle ==
  last.ev = "did-stop-loading" /\ last.handled /\ last.pre /\ HasTokenParam(last.url)
  => ~authInProgress

\* C4: no window is ever created for a window.open request: the window-open
\* handler returns 'deny' for every URL and the renderer's new-window handler
\* prevents the default, in either auth state.
C4_NoNewWindow ==
  /\ newWindows = 0
  /\ last.ev = "window-open" => last.action = "deny"
  /\ last.ev = "new-window" /\ last.handled => last.prevented

C4_Witness ==
  /\ last.ev = "new-window" /\ last.handled /\ last.prevented
  /\ last.pre /\ last.url = U_page /\ newWindows = 0

\* C5: in Idle, a window.open request for an auth-related URL emits a forward
\* instruction carrying that URL, and the instruction moves the view to
\* AuthPending and results in loadURL(url) on the embedded view.
C5_AuthNewWindowForwardedAndLoaded ==
  /\ last.ev = "window-open" /\ ~last.pre /\ ClaimAuthRelated(last.url)
     => /\ last.fwd
        /\ \E i \in 1..Len(inbox) : inbox[i] = AuthRedirectMsg(last.url)
  /\ /\ last.ev = "handle-auth-redirect" /\ ~last.pre /\ ClaimAuthRelated(last.url)
     /\ inbox # <<>> /\ Head(inbox) = NewWindowEvent(last.url)
     => authInProgress /\ last.loaded

\* C6: in Idle, a window.open request for a URL that is not auth-related is
\* denied with the 'External Browser Disabled' notice, no forward instruction
\* is sent and the view stays Idle.
C6_NonAuthNewWindowBlocked ==
  /\ last.ev = "window-open" /\ ~last.pre /\ ~ClaimAuthRelated(last.url)
     => last.action = "deny" /\ last.dialog /\ ~last.fwd
  /\ last.ev \in {"new-window", "handle-auth-redirect"} /\ last.handled
     /\ ~last.pre /\ ~ClaimAuthRelated(last.url)
     => ~authInProgress

HasTruthyTokenParam(u) == \E n \in TokenParams : LegacyQueryTruthy(u, n)

C8_Witness ==
  /\ last.ev = "log-url-opened"
  /\ Len(urlHistory) = 1
  /\ urlHistory[1].url = U_doneToken /\ urlHistory[1].timestamp = 1

C9_PendingFailureSuppressed ==
  last.ev = "did-fail-load" /\ last.handled /\ last.pre
  => ~last.surfaced /\ authInProgress

\* C10: in Idle a load failure is surfaced iff its code is not -3; an aborted
\* load is never surfaced; a load failure never changes the auth state.
C10_IdleFailureSurfacedUnlessAborted ==
  last.ev = "did-fail-load" /\ last.handled
  => /\ ~last.pre => (last.surfaced <=> last.code # ERR_ABORTED)
     /\ last.code = ERR_ABORTED => ~last.surfaced
     /\ authInProgress = last.pre

\* The call sites that classify a URL.
ClassifyingEvents == {"redirect", "window-open", "will-navigate", "new-window"}

\* C11: a malformed URL (one new URL() rejects) is classified as not
\* auth-related at every call site: no forward instruction is sent and the
\* view does not become AuthPending.
C11_MalformedNeverAuth ==
  last.ev \in ClassifyingEvents /\ last.handled /\ ~UrlParses(last.url)
  => ~last.verdict /\ ~last.fwd /\ authInProgress = last.pre

\* C12: the history query is answered with exactly the entries logged so far.
C12_HistoryQueryReturnsLog ==
  last.ev = "get-opened-urls" => last.reply.entries = urlHistory

\* A parameter named access_token in the fragment.
HasFragmentToken(u) ==
  LET ps == SplitParams(HashText(u)) IN \E i \in 1..Len(ps) : ps[i][1] = "access_token"

\* C13: a view that is AuthPending stays AuthPending under every event; it
\* leaves the state only on a completed load whose URL has a token, code or
\* access_token parameter, or when the view is destroyed.
C13_PendingUntilTokenOrDestroyed ==
  [][ authInProgress /\ ~authInProgress'
      => \/ last'.ev = "closed"
         \/ /\ last'.ev = "did-stop-loading" /\ last'.handled
            /\ HasTokenParam(last'.url) \/ HasFragmentToken(last'.url) ]_vars

C13_Witness ==
  /\ last.ev = "did-stop-loading" /\ last.handled /\ last.pre /\ lsn.auth
  /\ last.url = U_page /\ authInProgress

\* C14: the outcome of an event a listener handles is fixed by the events
\* handled before it, whatever the interleaving with IPC delivery and
\* re-rendering: it is the outcome of the handler on the auth state and the
\* readiness those events produced.
C14_OutcomeFixedByEvents ==
  /\ last.ev = "will-navigate" /\ last.handled
     => (authInProgress <=> last.pre \/ IsAuthWillNavigate(last.url))
  /\ last.ev = "did-fail-load" /\ last.handled
     => (last.surfaced <=> ~last.pre /\ last.code # ERR_ABORTED)
  /\ last.ev = "did-stop-loading" /\ last.handled
     => /\ authInProgress <=> StopAuthNext(last.pre, last.pre, last.url)
        /\ logQueue # <<>> /\ logQueue[Len(logQueue)].url = last.url
  /\ last.ev = "handle-auth-redirect" => (last.loaded <=> isWebviewReady)

C16_NothingOpenedExternally ==
  /\ newWindows = 0
  /\ last.ev = "shell-open-external" => ~last.dialog /\ last.ret = "resolved"
  /\ last.ev = "open-external"
     => last.dialog /\ last.notice = "External Browser Disabled" /\ ~last.fwd
  /\ last.ev = "open-batch"
     => last.dialog /\ last.notice # "" /\ last.ret = "null"

C16_Witness ==
  /\ last.ev = "shell-open-external" /\ last.url = U_page
  /\ newWindows = 0 /\ urlHistory # <<>>

\* C17 as stated: after an auth-related redirect has been forwarded to an
\* Idle view and the view has handled it, the view is still Idle.
C17_RedirectLeavesIdle ==
  last.ev = "handle-auth-redirect" /\ inbox = <<>> /\ ~last.pre
  => ~authInProgress

\* C17 amended: the redirect handler of the main process never changes the
\* auth state; the state becomes AuthPending only in the renderer, on a
\* will-navigate event, a new-window event, or when the forwarded
\* 'handle-auth-redirect' notification is handled, which always leaves the
\* view AuthPending.
C17_RedirectNotificationSetsPending ==
  [][ /\ last'.ev = "redirect" => authInProgress' = authInProgress
      /\ last'.ev = "handle-auth-redirect" => authInProgress'
      /\ ~authInProgress /\ authInProgress'
         => last'.ev \in {"will-navigate", "new-window", "handle-auth-redirect"} ]_vars

C17_Witness ==
  /\ last.ev = "handle-auth-redirect" /\ inbox = <<>> /\ ~last.pre
  /\ authInProgress /\ last.url = U_loginToken

\* C18: the history is append-only: a 'log-url-opened' message appends its
\* entry at the end, even when an equal entry is already there, and no step
\* removes, reorders or modifies an entry.
C18_HistoryAppendOnly ==
  [][ IF last'.ev = "log-url-opened"
      THEN logQueue # <<>> /\ urlHistory' = Append(urlHistory, Head(logQueue))
      ELSE urlHistory' = urlHistory ]_vars

C18_Witness ==
  /\ last.ev = "log-url-opened"
  /\ Len(urlHistory) = 2
  /\ urlHistory[1] = urlHistory[2]

\* The token is in the fragment and not in the query string.
FragmentOnlyToken(u) == HasFragmentToken(u) /\ ~HasTokenParam(u)

\* C19: an access_token in the fragment counts as the token parameter: a view
\* in AuthPending that completes a load of such a URL becomes Idle, and a URL
\* with an auth keyword and the token in its fragment is classified as
\* auth-related.
C19_FragmentTokenRecognised ==
  /\ /\ last.ev = "did-stop-loading" /\ last.handled /\ last.pre
     /\ FragmentOnlyToken(last.url)
     => ~authInProgress
  /\ /\ last.ev \in ClassifyingEvents /\ last.handled
     /\ HasAuthKeyword(last.url) /\ FragmentOnlyToken(last.url)
     => last.verdict

\* C20: when the final URL of a completed load does not parse while the view
\* is AuthPending, the view stays AuthPending, the title is left alone and
\* the entry of the load is still sent to the history.
C20_UnparsableStopRecovered ==
  [][ /\ last'.ev = "did-stop-loading" /\ last'.handled
      /\ authInProgress /\ ~UrlParses(last'.url)
      => /\ authInProgress'
         /\ title' = title
         /\ ~last'.surfaced
         /\ logQueue' = Append(logQueue, LogEntry(last'.url, now')) ]_vars

C20_Witness ==
  /\ last.ev = "did-stop-loading" /\ last.handled /\ last.pre /\ lsn.auth
  /\ last.url = U_noScheme /\ authInProgress
  /\ logQueue = << LogEntry(U_noScheme, now) >>

\* C21: a load-stop or load-fail event is always handled by a listener that
\* holds the auth state the earlier events produced, never one that captured
\* the value from before the last change.
C21_ListenersNeverStale ==
  last.ev \in {"did-stop-loading", "did-fail-load"} /\ last.handled
  => lsn.auth = last.pre

\* C22: one window.open request for an auth-related URL loads that URL at
\* most once: when the forwarded notification has loaded it, the new-window
\* handler of the same request does not load it again.
C22_OneLoadPerNewWindow ==
  [][ ~ /\ last.ev = "handle-auth-redirect" /\ last.loaded
        /\ ClaimAuthRelated(last.url)
        /\ inbox # <<>> /\ Head(inbox) = NewWindowEvent(last.url)
        /\ last'.ev = "new-window" /\ last'.url = last.url /\ last'.loaded ]_vars

\* C23: a 'handle-auth-redirect' notification moves the view to AuthPending
\* only when its URL has been handed to the webview for loading.
C23_PendingOnlyWhenLoaded ==
  last.ev = "handle-auth-redirect" /\ ~last.pre /\ authInProgress
  => last.loaded

\* C24: for every window.open URL the window-open handler and the new-window
\* handler agree: the main process forwards the URL (and shows no notice)
\* exactly when the renderer loads it and sets AuthPending.
C24_MainAndRendererAgree ==
  /\ last.ev = "window-open" => (last.fwd <=> ~last.dialog)
  /\ last.ev = "new-window" /\ last.handled
     => (IsAuthWindowOpen(last.url) <=> last.verdict /\ last.loaded /\ authInProgress)

\* C25: in a development run each answer of the readiness poll either
\* schedules a retry (status other than 200, or an error) or, on status 200,
\* loads the start URL once into the main window and ends the poll; the load
\* is never attempted on a main window that was closed meanwhile.
C25_PollLoadsOpenWindowOnce ==
  /\ last.ev = "poll-error" => last.action = "retry"
  /\ last.ev = "poll-answer" /\ last.code # 200 => last.action = "retry"
  /\ last.ev = "poll-answer" /\ last.code = 200
     => last.loaded /\ ~last.threw /\ mainWindow = "open"
  /\ dev.loads <= Len(dev.polls)

====
